---- MODULE Spec2Model ----
(***************************************************************************)
(* oneline-eyre: a one-line eyre::EyreHandler (Handler::debug) and its     *)
(* one-shot global installation (install / install_custom).                *)
(*                                                                         *)
(* An error chain is a sequence of display strings: node i of the chain is *)
(* the i-th error, node 1 is the outermost error handed to debug, and the  *)
(* source() of node i is node i + 1 (None for the last node).  Text is a   *)
(* TLA+ string and \o is string concatenation, so what the sink holds can  *)
(* be compared with the expected line character by character.              *)
(*                                                                         *)
(* Two specifications:                                                     *)
(*   FmtSpec  Handler::debug statement by statement, over a sink that may  *)
(*            refuse any write, for every chain and two handlers built     *)
(*            with Handler::new over arbitrary separators;                 *)
(*   Spec     the process: threads calling install / install_custom, the   *)
(*            reports the application constructs and wraps, and            *)
(*            format!("{:?}", report) over a String.                       *)
(***************************************************************************)
EXTENDS Integers, Sequences, FiniteSets, TLC

VARIABLES hook, threads, installs, reports, call, last

vars == <<hook, threads, installs, reports, call, last>>

---------------------------------------------------------------------------
(* Bounds of the model. *)

\* longest chain handed to Handler::debug in FmtSpec
MaxChain == 3

\* reports of the process, wrap_err calls per report, threads, install calls
NReports == 1

MaxWraps == 1

NThreads == 2

MaxInstalls == 2

(* Inputs. *)
RootMsgs == {"cause"}

Contexts == {"outer", "middle"}

Msgs == RootMsgs \cup Contexts

DEFAULT_SEPARATOR == ": "

Seps == {DEFAULT_SEPARATOR, " / ", ""}

Chains == UNION {[1..n -> Msgs] : n \in 1..MaxChain}

Threads == 1..NThreads

ReportIds == 1..NReports

\* FmtSpec renders one chain with two handlers
Pair == {1, 2}

---------------------------------------------------------------------------
(* The error chain: dyn Error, its Display and its source(). *)

None == 0

\* error.source(): the next node of the chain, None at the root cause
source(chain, i) == IF i < Len(chain) THEN i + 1 ELSE None

\* "{}" of an error node: its message
Display(chain, i) == chain[i]

\* core::fmt::Debug::fmt(error, f): the error's own structural rendering,
\* which nests the Debug of its source; it is produced by the error type,
\* not by the Handler, and knows nothing of the Handler's separator.
RECURSIVE DebugFmt(_, _)
DebugFmt(chain, i) ==
    IF source(chain, i) = None
    THEN "\"" \o chain[i] \o "\""
    ELSE "Error { msg: \"" \o chain[i] \o "\", source: "
             \o DebugFmt(chain, source(chain, i)) \o " }"

---------------------------------------------------------------------------
(* Handler and the formatter it writes to. *)

\* Handler::new
Handler_new(separator) == [type |-> "Handler", separator |-> separator]

\* the handler eyre installs by itself when a Report is constructed first
DefaultHandler == [type |-> "DefaultHandler"]

\* a core::fmt::Formatter over an empty sink: buf is what the sink holds,
\* pieces the successful writes in order (who wrote what), attempts the
\* number of writes attempted
NewFormatter(alternate) ==
    [alternate |-> alternate, buf |-> "", pieces |-> <<>>, attempts |-> 0]

\* one write to the sink; ok is whether the sink accepts it
write_str(f, kind, node, text, ok) ==
    IF ok
    THEN [f EXCEPT !.buf = @ \o text,
                   !.pieces = Append(@, [kind |-> kind, node |-> node, text |-> text]),
                   !.attempts = @ + 1]
    ELSE [f EXCEPT !.attempts = @ + 1]

\* no debug call in progress
Idle ==
    [pc |-> "idle", rep |-> 0, f |-> NewFormatter(FALSE), ret |-> "none",
     next |-> None, node |-> None, sources |-> 0]

---------------------------------------------------------------------------
(* Handler::debug: each statement as a function of the call's state c      *)
(* (pc, formatter f, the iterator's pending item next, the loop variable   *)
(* node, the number of source() calls made, the value returned).           *)

\* debug(&self, error, f) is entered
enter(r, alternate) ==
    [Idle EXCEPT !.pc = "enter", !.rep = r, !.f = NewFormatter(alternate)]

\* bug: the alternate flag is not looked at, the one-line path runs
debug_alternate_ignored(c, error, ok) ==
    [c EXCEPT !.f = write_str(@, "display", 1, Display(error, 1), ok),
              !.ret = IF ok THEN "none" ELSE "Err",
              !.pc = IF ok THEN "source" ELSE "ret"]

\* if f.alternate() { return core::fmt::Debug::fmt(error, f); }
debug_alternate(c, error, ok) ==
    [c EXCEPT !.f = write_str(@, "debug", 1, DebugFmt(error, 1), ok),
              !.ret = IF ok THEN "Ok" ELSE "Err",
              !.pc = "ret"]

\* write!(f, "{}", error)?;
write_root(c, error, ok) ==
    [c EXCEPT !.f = write_str(@, "display", 1, Display(error, 1), ok),
              !.ret = IF ok THEN "none" ELSE "Err",
              !.pc = IF ok THEN "source" ELSE "ret"]

\* if let Some(cause) = error.source() { let errors = successors(Some(cause), ..)
\* and, with no cause, Ok(())
if_let_source(c, error) ==
    LET cause == source(error, 1) IN
      [c EXCEPT !.sources = @ + 1,
                !.next = cause,
                !.pc = IF cause = None THEN "ret" ELSE "for",
                !.ret = IF cause = None THEN "Ok" ELSE "none"]

\* bug: the end of the chain is not noticed, the loop spins on the last node
for_next_spin(c, error) ==
    IF c.next = None
    THEN c
    ELSE [c EXCEPT !.node = c.next,
                   !.next = source(error, c.next),
                   !.sources = @ + 1,
                   !.pc = "body"]

\* for error in errors: Successors::next() takes the pending item and
\* computes its successor with (*e).source() before yielding it; when
\* nothing is pending the loop ends and debug returns Ok(())
for_next(c, error) ==
    IF c.next = None
    THEN [c EXCEPT !.pc = "ret", !.ret = "Ok", !.node = None]
    ELSE [c EXCEPT !.node = c.next,
                   !.next = source(error, c.next),
                   !.sources = @ + 1,
                   !.pc = "body"]

\* bug: the arguments of write! swapped, the message before the separator
write_cause_swapped(c, self, error, okSep, okMsg) ==
    LET f1 == write_str(c.f, "display", c.node, Display(error, c.node), okSep)
        f2 == IF okSep
              THEN write_str(f1, "separator", c.node, self.separator, okMsg)
              ELSE f1
    IN [c EXCEPT !.f = f2,
                 !.ret = IF okSep /\ okMsg THEN "none" ELSE "Err",
                 !.pc = IF okSep /\ okMsg THEN "for" ELSE "ret"]

\* bug: the result of the separator's write is dropped instead of returned
write_cause_unchecked(c, self, error, okSep, okMsg) ==
    LET f1 == write_str(c.f, "separator", c.node, self.separator, okSep)
        f2 == write_str(f1, "display", c.node, Display(error, c.node), TRUE)
    IN [c EXCEPT !.f = f2, !.ret = "none", !.pc = "for"]

\* bug: a cause is skipped altogether when the separator is empty
write_cause_skip_empty(c, self, error, okSep, okMsg) ==
    IF self.separator = ""
    THEN [c EXCEPT !.pc = "for"]
    ELSE LET f1 == write_str(c.f, "separator", c.node, self.separator, okSep)
             f2 == IF okSep
                   THEN write_str(f1, "display", c.node, Display(error, c.node), okMsg)
                   ELSE f1
         IN [c EXCEPT !.f = f2,
                      !.ret = IF okSep /\ okMsg THEN "none" ELSE "Err",
                      !.pc = IF okSep /\ okMsg THEN "for" ELSE "ret"]

\* write!(f, "{}{}", self.separator, error)?;  two writes, the second only
\* when the first was accepted
write_cause(c, self, error, okSep, okMsg) ==
    LET f1 == write_str(c.f, "separator", c.node, self.separator, okSep)
        f2 == IF okSep
              THEN write_str(f1, "display", c.node, Display(error, c.node), okMsg)
              ELSE f1
    IN [c EXCEPT !.f = f2,
                 !.ret = IF okSep /\ okMsg THEN "none" ELSE "Err",
                 !.pc = IF okSep /\ okMsg THEN "for" ELSE "ret"]

\* the statement at c.pc, over a sink that accepts every write
statement(c, self, error) ==
    CASE c.pc = "enter" /\ c.f.alternate  -> debug_alternate(c, error, TRUE)
      [] c.pc = "enter" /\ ~c.f.alternate -> write_root(c, error, TRUE)
      [] c.pc = "source"                  -> if_let_source(c, error)
      [] c.pc = "for"                     -> for_next(c, error)
      [] c.pc = "body"                    -> write_cause(c, self, error, TRUE, TRUE)

\* Handler::debug run to its return over a sink that accepts every write
RECURSIVE debug(_, _, _)
debug(c, self, error) ==
    IF c.pc = "ret" THEN c ELSE debug(statement(c, self, error), self, error)

\* what the formatting entry point keeps of a returned call: the output of
\* a successful one-line render
keep(old, c) == IF c.ret = "Ok" /\ ~c.f.alternate THEN c ELSE old

---------------------------------------------------------------------------
(* Handler::debug as actions, one per statement, over a sink that may      *)
(* refuse a write.                                                         *)

\* the receiver and the error of the debug call in progress
Self == reports[call.rep].handler

Error == reports[call.rep].chain

\* <Report as Debug>::fmt dispatches to the handler the report holds
DebugCall(r, alternate) ==
    /\ call.pc = "idle"
    /\ reports[r].live
    /\ reports[r].handler.type = "Handler"
    /\ call' = enter(r, alternate)
    /\ UNCHANGED <<hook, threads, installs, reports, last>>

DebugAlternate(ok) ==
    /\ call.pc = "enter"
    /\ call.f.alternate
    /\ call' = debug_alternate(call, Error, ok)
    /\ UNCHANGED <<hook, threads, installs, reports, last>>

WriteRoot(ok) ==
    /\ call.pc = "enter"
    /\ ~call.f.alternate
    /\ call' = write_root(call, Error, ok)
    /\ UNCHANGED <<hook, threads, installs, reports, last>>

IfLetSource ==
    /\ call.pc = "source"
    /\ call' = if_let_source(call, Error)
    /\ UNCHANGED <<hook, threads, installs, reports, last>>

ForNext ==
    /\ call.pc = "for"
    /\ call' = for_next(call, Error)
    /\ UNCHANGED <<hook, threads, installs, reports, last>>

\* bug: the walk takes the message out of each cause it renders
WriteCauseTaking(okSep, okMsg) ==
    /\ call.pc = "body"
    /\ okMsg => okSep
    /\ call' = write_cause(call, Self, Error, okSep, okMsg)
    /\ reports' = [reports EXCEPT ![call.rep].chain[call.node] = ""]
    /\ UNCHANGED <<hook, threads, installs, last>>

WriteCause(okSep, okMsg) ==
    /\ call.pc = "body"
    /\ okMsg => okSep
    /\ call' = write_cause(call, Self, Error, okSep, okMsg)
    /\ UNCHANGED <<hook, threads, installs, reports, last>>

\* debug returns to the formatting entry point
DebugReturn ==
    /\ call.pc = "ret"
    /\ last' = [last EXCEPT ![call.rep] = keep(@, call)]
    /\ call' = Idle
    /\ UNCHANGED <<hook, threads, installs, reports>>

---------------------------------------------------------------------------
(* FmtSpec: the formatter on its own.                                      *)

Uninitialized == [type |-> "Uninitialized"]

IdleThread == [pc |-> "idle", separator |-> ""]

FmtInit ==
    /\ hook = Uninitialized
    /\ threads = [t \in Threads |-> IdleThread]
    /\ installs = <<>>
    /\ \E chain \in Chains, seps \in [Pair -> Seps] :
         reports = [r \in Pair |->
                      [live |-> TRUE, chain |-> chain, handler |-> Handler_new(seps[r])]]
    /\ call = Idle
    /\ last = [r \in Pair |-> Idle]

FmtNext ==
    \/ \E r \in Pair, alternate \in BOOLEAN : DebugCall(r, alternate)
    \/ \E ok \in BOOLEAN : DebugAlternate(ok)
    \/ \E ok \in BOOLEAN : WriteRoot(ok)
    \/ IfLetSource
    \/ ForNext
    \/ \E okSep, okMsg \in BOOLEAN : WriteCause(okSep, okMsg)
    \/ DebugReturn

FmtSpec == FmtInit /\ [][FmtNext]_vars

\* a debug call that was entered runs: nothing in it waits for anything
FairFmtSpec == FmtSpec /\ WF_vars(FmtNext)

---------------------------------------------------------------------------
(* Spec: the process.  The global hook of eyre, install / install_custom   *)
(* called from any thread, and the reports the application constructs.     *)

\* the boxed closure install_custom hands to set_hook: |_| Handler::new(separator)
HookFor(handler) == [type |-> "Hook", handler |-> handler]

\* bug: the hook is replaced instead of being set once
set_hook_replace(slot, h) == [hook |-> h, ret |-> "Ok"]

\* bug: a failing call still stores its hook
set_hook_clobber(slot, h) ==
    [hook |-> h, ret |-> IF slot = Uninitialized THEN "Ok" ELSE "Err"]

\* eyre::set_hook: a write-once cell; Err(InstallError) when already set
set_hook(slot, h) ==
    IF slot = Uninitialized
    THEN [hook |-> h, ret |-> "Ok"]
    ELSE [hook |-> slot, ret |-> "Err"]

\* bug: the default handler is handed out without being installed
capture_handler_peek(slot) ==
    IF slot = Uninitialized
    THEN [hook |-> slot, handler |-> DefaultHandler]
    ELSE [hook |-> slot, handler |-> slot.handler]

\* eyre's capture of the handler when a Report is constructed: the slot is
\* initialised with the default handler when still empty, and the hook in
\* the slot makes the report's handler
capture_handler(slot) ==
    LET set == IF slot = Uninitialized THEN HookFor(DefaultHandler) ELSE slot
    IN [hook |-> set, handler |-> set.handler]

\* threads inside install_custom, before set_hook
Inside == {t \in Threads : threads[t].pc = "set_hook"}

\* install / install_custom calls started so far
Started == Len(installs) + Cardinality(Inside)

\* pub fn install(): install_custom(DEFAULT_SEPARATOR)
install(t) ==
    /\ threads[t].pc = "idle"
    /\ Started < MaxInstalls
    /\ threads' = [threads EXCEPT ![t] =
                     [pc |-> "set_hook", separator |-> DEFAULT_SEPARATOR]]
    /\ UNCHANGED <<hook, installs, reports, call, last>>

\* pub fn install_custom(separator): entry, the closure is boxed
install_custom(t, separator) ==
    /\ threads[t].pc = "idle"
    /\ Started < MaxInstalls
    /\ threads' = [threads EXCEPT ![t] =
                     [pc |-> "set_hook", separator |-> separator]]
    /\ UNCHANGED <<hook, installs, reports, call, last>>

\* bug: the result of set_hook is dropped and Ok(()) returned
SetHookUnchecked(t) ==
    /\ threads[t].pc = "set_hook"
    /\ LET res == set_hook(hook, HookFor(Handler_new(threads[t].separator))) IN
         /\ hook' = res.hook
         /\ installs' = Append(installs,
                [separator |-> threads[t].separator,
                 found |-> hook.type,
                 racing |-> Inside # {t},
                 ret |-> "Ok"])
    /\ threads' = [threads EXCEPT ![t] = IdleThread]
    /\ UNCHANGED <<reports, call, last>>

\* crate::eyre::set_hook(Box::new(move |_| Box::new(Handler::new(separator))))?; Ok(())
\* installs records each call as it returns: its separator, what it found in
\* the slot, whether another thread was inside the call, and its result
SetHook(t) ==
    /\ threads[t].pc = "set_hook"
    /\ LET res == set_hook(hook, HookFor(Handler_new(threads[t].separator))) IN
         /\ hook' = res.hook
         /\ installs' = Append(installs,
                [separator |-> threads[t].separator,
                 found |-> hook.type,
                 racing |-> Inside # {t},
                 ret |-> res.ret])
    /\ threads' = [threads EXCEPT ![t] = IdleThread]
    /\ UNCHANGED <<reports, call, last>>

NoReport == [live |-> FALSE, chain |-> <<>>, handler |-> DefaultHandler]

\* eyre!(msg): a Report over a single error, with the captured handler
NewReport(r, msg) ==
    /\ ~reports[r].live
    /\ \A q \in ReportIds : q < r => reports[q].live
    /\ LET got == capture_handler(hook) IN
         /\ hook' = got.hook
         /\ reports' = [reports EXCEPT ![r] =
                          [live |-> TRUE, chain |-> <<msg>>, handler |-> got.handler]]
    /\ UNCHANGED <<threads, installs, call, last>>

\* .wrap_err(msg): a new outermost error over the chain, the handler is kept
WrapErr(r, msg) ==
    /\ reports[r].live
    /\ Len(reports[r].chain) <= MaxWraps
    /\ reports' = [reports EXCEPT ![r].chain = <<msg>> \o @]
    /\ last' = [last EXCEPT ![r] = Idle]
    /\ UNCHANGED <<hook, threads, installs, call>>

\* the report of eyre's default handler: the message, then the causes one per line
RECURSIVE DefaultCauses(_, _)
DefaultCauses(chain, i) ==
    IF i = None THEN ""
    ELSE "\n    " \o chain[i] \o DefaultCauses(chain, source(chain, i))

DefaultFmt(chain) ==
    IF source(chain, 1) = None THEN chain[1]
    ELSE chain[1] \o "\n\nCaused by:" \o DefaultCauses(chain, source(chain, 1))

default_debug(c, error) ==
    [c EXCEPT !.f = write_str(@, "default", 1, DefaultFmt(error), TRUE),
              !.ret = "Ok",
              !.pc = "ret"]

\* format!("{:?}", report): the handler the report holds renders it into a
\* String, which accepts every write
Format(r) ==
    /\ reports[r].live
    /\ LET c == enter(r, FALSE)
           h == reports[r].handler
           done == IF h.type = "Handler"
                   THEN debug(c, h, reports[r].chain)
                   ELSE default_debug(c, reports[r].chain)
       IN last' = [last EXCEPT ![r] = keep(@, done)]
    /\ UNCHANGED <<hook, threads, installs, reports, call>>

Init ==
    /\ hook = Uninitialized
    /\ threads = [t \in Threads |-> IdleThread]
    /\ installs = <<>>
    /\ reports = [r \in ReportIds |-> NoReport]
    /\ call = Idle
    /\ last = [r \in ReportIds |-> Idle]

Next ==
    \/ \E t \in Threads : install(t)
    \/ \E t \in Threads, separator \in Seps : install_custom(t, separator)
    \/ \E t \in Threads : SetHook(t)
    \/ \E r \in ReportIds, msg \in RootMsgs : NewReport(r, msg)
    \/ \E r \in ReportIds, msg \in Contexts : WrapErr(r, msg)
    \/ \E r \in ReportIds : Format(r)

Spec == Init /\ [][Next]_vars

---------------------------------------------------------------------------
(* What the claims are stated with.                                        *)

\* display(e_i) + sep + ... for the nodes from i on, each preceded by sep
RECURSIVE JoinFrom(_, _, _)
JoinFrom(chain, sep, i) ==
    IF i > Len(chain) THEN "" ELSE sep \o chain[i] \o JoinFrom(chain, sep, i + 1)

\* display(e0) + sep + display(e1) + ... + sep + display(en)
OneLine(chain, sep) == chain[1] \o JoinFrom(chain, sep, 2)

\* the writes of a complete one-line render: a message for every node in
\* chain order, a separator before every node but the first
ExpectedPieces(chain, sep) ==
    [k \in 1..(2 * Len(chain) - 1) |->
        IF k % 2 = 1
        THEN [kind |-> "display", node |-> (k + 1) \div 2, text |-> chain[(k + 1) \div 2]]
        ELSE [kind |-> "separator", node |-> k \div 2 + 1, text |-> sep]]

\* the text of a sequence of writes
RECURSIVE Concat(_)
Concat(pieces) ==
    IF pieces = <<>> THEN "" ELSE Head(pieces).text \o Concat(Tail(pieces))

IsPrefix(a, b) == Len(a) <= Len(b) /\ SubSeq(b, 1, Len(a)) = a

OfKind(pieces, kind) == SelectSeq(pieces, LAMBDA p : p.kind = kind)

InCall == call.pc # "idle"

OneLineMode == InCall /\ ~call.f.alternate

Returned == call.pc = "ret"

\* no write of the call in progress was refused
SinkHeld == call.f.attempts = Len(call.f.pieces)

---------------------------------------------------------------------------
(* Claims about Handler::debug (FmtSpec).                                  *)

\* C1: a one-line render over a sink that refuses no write returns Ok and
\* has written exactly display(e0) + sep + display(e1) + ... + sep +
\* display(en): one message per node in chain order and one separator
\* before each of the n causes, none at all for a chain without a cause.
C1_OneLineRendering ==
    (OneLineMode /\ Returned /\ SinkHeld) =>
        /\ call.ret = "Ok"
        /\ call.f.buf = OneLine(Error, Self.separator)
        /\ call.f.pieces = ExpectedPieces(Error, Self.separator)
        /\ Len(OfKind(call.f.pieces, "separator")) = Len(Error) - 1

C1_Witness ==
    /\ OneLineMode /\ Returned /\ call.ret = "Ok"
    /\ Error = <<"outer", "middle", "cause">>
    /\ Self.separator = DEFAULT_SEPARATOR
    /\ call.f.buf = "outer: middle: cause"

\* C6: once the sink refuses a write of a one-line render, debug returns
\* that error at once: the refused write is the last one attempted, the
\* result is Err, no node after the one being written has been asked for
\* its source, and the sink holds exactly the writes accepted before, a
\* prefix of the full line; and debug returns Err only for a refused write.
C6_WriteErrorPropagates ==
    /\ (OneLineMode /\ ~SinkHeld) =>
          /\ Returned
          /\ call.ret = "Err"
          /\ call.f.attempts = Len(call.f.pieces) + 1
          /\ call.sources = call.node
          /\ call.f.buf = Concat(call.f.pieces)
          /\ IsPrefix(call.f.pieces, ExpectedPieces(Error, Self.separator))
          /\ IsPrefix(call.f.buf, OneLine(Error, Self.separator))
    /\ (OneLineMode /\ Returned /\ call.ret = "Err") => ~SinkHeld

C6_Witness ==
    /\ OneLineMode /\ Returned /\ call.ret = "Err"
    /\ Error = <<"outer", "middle", "cause">>
    /\ call.f.buf = "outer: "

\* C7: in alternate mode debug only delegates to the Debug rendering of the
\* root error and returns its result: it never reaches the one-line
\* statements, never asks a node for its source, and writes neither a
\* message nor the separator.
C7_AlternateBypass ==
    (InCall /\ call.f.alternate) =>
        /\ call.pc \in {"enter", "ret"}
        /\ call.sources = 0
        /\ \A k \in 1..Len(call.f.pieces) : call.f.pieces[k].kind = "debug"
        /\ Returned =>
              /\ call.f.attempts = 1
              /\ call.ret = IF SinkHeld THEN "Ok" ELSE "Err"
              /\ call.f.buf = IF SinkHeld THEN DebugFmt(Error, 1) ELSE ""

C7_Witness ==
    /\ Returned /\ call.f.alternate /\ call.ret = "Ok"
    /\ Len(Error) = 3
    /\ Self.separator = " / "
    /\ call.f.buf # OneLine(Error, Self.separator)

\* C8: no step of a render changes the chain or the Handler, and a
\* successful one-line render of a report writes the same text as the
\* previous successful one-line render of that report.
C8_RenderIsPure ==
    [][/\ reports' = reports
       /\ (OneLineMode /\ Returned /\ call.ret = "Ok" /\ last[call.rep].pc = "ret")
             => call.f.buf = last[call.rep].f.buf]_vars

C8_Witness ==
    /\ OneLineMode /\ Returned /\ call.ret = "Ok"
    /\ last[call.rep].pc = "ret"
    /\ Len(Error) = 3
    /\ call.f.buf = last[call.rep].f.buf

\* C9: the one-line renders of one chain by two Handlers consist of the
\* same writes in the same order, the same messages at the same places and
\* a separator at the same places, and differ only in the text of the
\* separators, which is each Handler's own.
C9_SeparatorOnly ==
    (last[1].pc = "ret" /\ last[2].pc = "ret" /\ reports[1].chain = reports[2].chain) =>
        LET p1 == last[1].f.pieces
            p2 == last[2].f.pieces
        IN /\ Len(p1) = Len(p2)
           /\ last[1].f.buf = Concat(p1)
           /\ last[2].f.buf = Concat(p2)
           /\ OfKind(p1, "display") = OfKind(p2, "display")
           /\ Len(OfKind(p1, "separator")) = Len(reports[1].chain) - 1
           /\ \A k \in 1..Len(p1) :
                 /\ p1[k].kind = p2[k].kind
                 /\ p1[k].node = p2[k].node
                 /\ p1[k].kind = "separator" =>
                       /\ p1[k].text = reports[1].handler.separator
                       /\ p2[k].text = reports[2].handler.separator

C9_Witness ==
    /\ last[1].pc = "ret" /\ last[2].pc = "ret"
    /\ reports[1].chain = <<"outer", "cause">>
    /\ last[1].f.buf = "outer / cause"
    /\ last[2].f.buf = "outercause"

\* C10: a one-line render that was entered returns; the walk asks each node
\* once for its source and stops at the first that has none, so a
\* successful render has made n + 1 source() calls and n + 1 message
\* writes, and no render makes more than that.
C10_Terminates ==
    /\ (call.pc = "enter") ~> Returned
    /\ [](OneLineMode =>
            /\ call.sources <= Len(Error)
            /\ call.f.attempts <= 2 * Len(Error) - 1
            /\ (Returned /\ call.ret = "Ok") =>
                  /\ call.next = None
                  /\ call.sources = Len(Error)
                  /\ Len(OfKind(call.f.pieces, "display")) = Len(Error)
                  /\ \A i \in 1..Len(Error) :
                        OfKind(call.f.pieces, "display")[i].node = i)

C10_Witness ==
    /\ OneLineMode /\ Returned /\ call.ret = "Ok"
    /\ Len(Error) = MaxChain
    /\ call.sources = MaxChain
    /\ call.next = None

---------------------------------------------------------------------------
(* Claims about install / install_custom (Spec).                           *)

Live == {r \in ReportIds : reports[r].live}

\* the calls that returned Ok
Won == {i \in 1..Len(installs) : installs[i].ret = "Ok"}

\* C2: when the first install / install_custom call finds the slot empty,
\* it returns Ok and every later call returns Err whatever its separator;
\* the hook, every report and every one-line render of a report use the
\* separator of that first call.
C2_InstallOnce ==
    (installs # <<>> /\ installs[1].found = "Uninitialized") =>
        LET sep == installs[1].separator IN
        /\ installs[1].ret = "Ok"
        /\ \A i \in 2..Len(installs) : installs[i].ret = "Err"
        /\ hook = HookFor(Handler_new(sep))
        /\ \A r \in Live :
              /\ reports[r].handler = Handler_new(sep)
              /\ last[r].pc = "ret" => last[r].f.buf = OneLine(reports[r].chain, sep)

C2_Witness ==
    /\ Len(installs) = 2
    /\ installs[1].separator = " / "
    /\ installs[2].separator = DEFAULT_SEPARATOR
    /\ installs[2].ret = "Err"
    /\ last[1].pc = "ret"
    /\ last[1].f.buf = "outer / cause"

\* C3: of the install / install_custom calls of all threads, however they
\* interleave, at most one returns Ok, namely the one that found the slot
\* empty, and every other returns Err; the slot holds the hook of the call
\* that returned Ok.
C3_AtMostOneSuccess ==
    /\ Cardinality(Won) <= 1
    /\ \A i \in 1..Len(installs) :
          /\ installs[i].ret \in {"Ok", "Err"}
          /\ installs[i].ret = "Ok" <=> installs[i].found = "Uninitialized"
    /\ \A i \in Won : hook = HookFor(Handler_new(installs[i].separator))

C3_Witness ==
    /\ Len(installs) = 2
    /\ installs[1].racing
    /\ installs[1].ret = "Ok"
    /\ installs[2].ret = "Err"
    /\ installs[1].separator # installs[2].separator
    /\ hook = HookFor(Handler_new(installs[1].separator))

\* C4: once the slot is occupied it never changes, and a call of install /
\* install_custom that returns Err changes neither the slot, nor any
\* report or its handler, nor anything rendered.
C4_WriteOnce ==
    [][/\ hook # Uninitialized => hook' = hook
       /\ (Len(installs') > Len(installs) /\ installs'[Len(installs')].ret = "Err")
             => (hook' = hook /\ reports' = reports /\ last' = last)]_vars

C4_Witness ==
    /\ Len(installs) = 2
    /\ installs[2].ret = "Err"
    /\ hook = HookFor(Handler_new(""))
    /\ installs[2].separator = " / "
    /\ reports[1].live
    /\ reports[1].handler = Handler_new("")

\* C5: a call that finds the slot occupied returns Err; when a report holds
\* the default handler (it was constructed while the slot was empty), the
\* slot holds the default hook, every install / install_custom call returns
\* Err, and every report holds the default handler and is rendered by it.
C5_DefaultHandlerBlocksInstall ==
    /\ \A i \in 1..Len(installs) :
          installs[i].found # "Uninitialized" => installs[i].ret = "Err"
    /\ (\E r \in Live : reports[r].handler = DefaultHandler) =>
          /\ hook = HookFor(DefaultHandler)
          /\ Won = {}
          /\ \A r \in Live :
                /\ reports[r].handler = DefaultHandler
                /\ last[r].pc = "ret" =>
                      /\ last[r].f.buf = DefaultFmt(reports[r].chain)
                      /\ OfKind(last[r].f.pieces, "separator") = <<>>

C5_Witness ==
    /\ hook = HookFor(DefaultHandler)
    /\ Len(installs) = 2
    /\ installs[1].ret = "Err" /\ installs[2].ret = "Err"
    /\ last[1].pc = "ret"
    /\ last[1].f.buf = "outer\n\nCaused by:\n    cause"

====
